---- MODULE Spec2Model ----
(***************************************************************************)
(* Model of the skottie adapter layer (modules/skottie/src/SkottieAdapter  *)
(* .cpp): the per-frame driver, the repeater, polystar, gradient and trim  *)
(* adapters, each pushing state to the scene-graph node it owns.           *)
(*                                                                         *)
(* Number representation.  Outside the trim adapter, floats are modelled   *)
(* as exact rationals:                                                     *)
(*   - gradient stop positions t are integers in units of 1/4096           *)
(*     (SK_ScalarNearlyZero), so 4096 is t = 1.0;                          *)
(*   - colour and alpha channel floats are integers in units of 1/510,     *)
(*     so 510 is 1.0 and 255 is 0.5; an 8-bit channel n is the float       *)
(*     n/255, that is 2n units;                                            *)
(*   - the repeater count is an integer in units of 1/4, the polystar      *)
(*     point count an integer in units of 1/2.                             *)
(* The trim adapter computes in IEEE-754 binary32, rounding each result to *)
(* nearest (ties to even): its tests compare rounded values.               *)
(***************************************************************************)
EXTENDS Integers, Sequences, FiniteSets, TLC

VARIABLES
    lastOp,            \* the call that ran last: "new", "set" (a property setter), "apply", ...
    \* ---- GradientAdapter (+ Linear/Radial) and its sksg::Gradient node
    gradKind,          \* "Linear" or "Radial": the adapter subtype
    fColorStopCount,   \* GradientAdapter::fColorStopCount (fixed at construction)
    fStops,            \* the packed stop sequence (flat sequence of floats)
    fStartPoint,       \* adapter property startPoint()
    fEndPoint,         \* adapter property endPoint()
    fGradient,         \* the gradient node: its color stops and end points
    applyLog,          \* what the latest apply() called: "onApply", "SkDebugf", "setColorStops"
    \* ---- the body of GradientAdapter::apply(), statement by statement
    pc,                \* position inside apply()
    current_c,         \* color cursor, as a record index (end_c is c_count)
    current_o,         \* opacity cursor, as a record index (end_o is o_count)
    prev_stop,         \* the previous resolved stop
    stops,             \* the std::vector being built
    \* ---- TrimEffectAdapter and its sksg::TrimEffect node
    fStart,            \* property Start, percent
    fEnd,              \* property End, percent
    fOffset,           \* property Offset, degrees
    fTrimEffect,       \* the node: start, stop (binary32 floats) and mode
    \* ---- RepeaterAdapter and its group fRoot
    fComposite,        \* "Above" or "Below" (fixed at construction)
    fCount,            \* property Count, in quarters
    fRepOffset,        \* property Offset
    fRepRotation,      \* property Rotation
    fRepPosition,      \* property Position
    fAnchorPoint,      \* property AnchorPoint
    fScale,            \* property Scale, percent
    fRoot,             \* the children of the group, in drawing order
    \* ---- DiscardableAdaptorBase
    fAnimators,        \* the animator list, each animator named by a number
    destroyed,         \* animators whose list was replaced (their unique_ptr is gone)
    animTime,          \* per animator: the time of its latest tick, -1 before any
    tickLog,           \* what the latest onTick() called, in order
    numTicks,          \* onTick() calls so far
    lastTicks,         \* the times given to the onTick() before the latest and to the latest, -1 if none
    lastSet,           \* the list the latest setAnimators() was given
    \* ---- PolyStarAdapter and its sksg::Path node
    fType,             \* "Star" or "Polygon" (fixed at construction)
    fPointCount,       \* property PointCount, in halves
    fPosition,         \* property Position
    fInnerRadius,      \* property InnerRadius
    fOuterRadius,      \* property OuterRadius
    fRotation,         \* property Rotation, degrees
    fPathNode          \* the path of the node: its verbs in order

gradVars == <<gradKind, fColorStopCount, fStops, fStartPoint, fEndPoint, fGradient, applyLog>>
walkVars == <<pc, current_c, current_o, prev_stop, stops>>

trimVars == <<fStart, fEnd, fOffset, fTrimEffect>>
repVars == <<fComposite, fCount, fRepOffset, fRepRotation, fRepPosition, fAnchorPoint, fScale, fRoot>>
drvVars == <<fAnimators, destroyed, animTime, tickLog, numTicks, lastTicks, lastSet>>
polyVars == <<fType, fPointCount, fPosition, fInnerRadius, fOuterRadius, fRotation, fPathNode>>

vars == <<lastOp, gradVars, walkVars, trimVars, repVars, drvVars, polyVars>>

(***************************************************************************)
(* Bounds of the model                                                     *)
(***************************************************************************)
\* most records (color and opacity together) of a stop sequence the property
\* setter hands to a gradient adapter
MaxStopRecs == 2
\* most records of a stop sequence whose merge-walk is stepped
MaxRecs == 3

(***************************************************************************)
(* Scalars, colours                                                        *)
(***************************************************************************)
Min(a, b) == IF a < b THEN a ELSE b
Max(a, b) == IF b < a THEN a ELSE b
Abs(a) == IF a < 0 THEN -a ELSE a

\* SK_ScalarNearlyZero is 1/4096: one unit of stop position
SkScalarNearlyEqual(x, y) == Abs(x - y) <= 1

\* 1.0 as a channel float
ChannelOne == 2 * 255

\* a rational num/den, den > 0
Rat(n, d) == <<n, d>>
RatInt(n) == <<n, 1>>

\* SkScalarRoundToInt(x * 255) for a channel float x: floor(x * 255 + 0.5)
RoundChannel(x) == (x[1] + x[2]) \div (2 * x[2])

\* one channel of SkColor4f::toSkColor(): clamp to [0, 1], scale by 255, round
ChannelToU8(x) ==
    IF x[1] <= 0 THEN 0
    ELSE IF x[1] >= ChannelOne * x[2] THEN 255
    ELSE RoundChannel(x)

\* SkColor4f{r, g, b, a}.toSkColor()
toSkColor(c) ==
    [a |-> ChannelToU8(c.fA), r |-> ChannelToU8(c.fR),
     g |-> ChannelToU8(c.fG), b |-> ChannelToU8(c.fB)]

\* SkColor4f::FromColor(): each 8-bit channel n becomes n / 255
FromColor(col) == [fR |-> 2 * col.r, fG |-> 2 * col.g, fB |-> 2 * col.b, fA |-> 2 * col.a]

\* SkColorSetA(c, a): a is shifted into the top byte, only its low 8 bits stay
SkColorSetA(col, a) == [col EXCEPT !.a = a % 256]

SK_ColorBLACK == [a |-> 255, r |-> 0, g |-> 0, b |-> 0]

\* SkTPin(sk_ieee_float_divide(x, y), 0.0f, 1.0f) as a rational in [0, 1];
\* x / 0 is +inf, -inf or NaN, and SkTPin maps them to 1, 0 and 1
PinnedRatio(x, y) ==
    IF y = 0 THEN (IF x < 0 THEN Rat(0, 1) ELSE Rat(1, 1))
    ELSE LET n == IF y < 0 THEN -x ELSE x
             d == Abs(y)
         IN  IF n <= 0 THEN Rat(0, 1)
             ELSE IF n >= d THEN Rat(1, 1)
             ELSE Rat(n, d)

\* lerp(a, b, t) = a + t * (b - a), for channel floats a, b and rational t
lerp(a, b, t) == Rat(a * t[2] + t[1] * (b - a), t[2])

(***************************************************************************)
(* The packed stop sequence                                                *)
(***************************************************************************)
\* struct ColorRec { float t, r, g, b; }: record i (from 0) of the sequence
ColorRec(s, i) == [t |-> s[4 * i + 1], r |-> s[4 * i + 2], g |-> s[4 * i + 3], b |-> s[4 * i + 4]]

\* struct OpacityRec { float t, a; }: record j (from 0) after c_count color records
OpacityRec(s, c_count, j) == [t |-> s[4 * c_count + 2 * j + 1], a |-> s[4 * c_count + 2 * j + 2]]

\* o_count = (fStops.size() - c_size) / 2.  The subtraction is unsigned; when
\* size < c_size it wraps, and the validity test then returns on its first
\* disjunct without reading o_count, so the quotient is taken here only of a
\* non-negative difference.
OpacityCount(size, c_count) ==
    IF size < c_count * 4 THEN 0 ELSE (size - c_count * 4) \div 2

\* the test that makes apply() return before touching the color stops
\* (variant without the second disjunct, to validate C1)
InvalidStopsNoParity(size, c_count) == size < c_count * 4
InvalidStops(size, c_count) ==
    \/ size < c_count * 4
    \/ size # c_count * 4 + OpacityCount(size, c_count) * 2

\* the SkDebugf call on the early return: "only log when we have some stops"
Diagnostic(s) == IF Len(s) # 0 THEN <<"SkDebugf">> ELSE <<>>

(***************************************************************************)
(* The merge-walk                                                          *)
(***************************************************************************)
\* prev_stop before the loop (lines 307-313): position 0, black; then the
\* first color record's r/g/b at alpha 1; then the first opacity record's alpha
\* (variant without line 312, to validate C3)
SeedPrevStopNoOpacity(s, c_count, o_count) ==
    [fPosition |-> 0,
     fColor |-> IF 0 < c_count
                THEN LET c == ColorRec(s, 0)
                     IN  toSkColor([fR |-> RatInt(c.r), fG |-> RatInt(c.g),
                                    fB |-> RatInt(c.b), fA |-> RatInt(ChannelOne)])
                ELSE SK_ColorBLACK]
SeedPrevStop(s, c_count, o_count) ==
    LET withC == IF 0 < c_count
                 THEN LET c == ColorRec(s, 0)
                      IN  toSkColor([fR |-> RatInt(c.r), fG |-> RatInt(c.g),
                                     fB |-> RatInt(c.b), fA |-> RatInt(ChannelOne)])
                 ELSE SK_ColorBLACK
        withO == IF 0 < o_count
                 THEN SkColorSetA(withC, RoundChannel(RatInt(OpacityRec(s, c_count, 0).a)))
                 ELSE withC
    IN  [fPosition |-> 0, fColor |-> withO]

\* the test of the while loop: current_c < end_c || current_o < end_o
\* (variant with <= for the color cursor, to validate C10)
LoopCondInclusive(cc, co, c_count, o_count) == cc <= c_count \/ co < o_count
LoopCond(cc, co, c_count, o_count) == cc < c_count \/ co < o_count

\* The branches of next_stop().  Each gives the stop emitted and the cursors
\* after it; "case" is the value the switch was entered with.

\* case 0x01: color-only stop
ColorOnlyStop(s, c_count, cc, co, prev) ==
    LET prev_c == FromColor(prev.fColor)
        c == ColorRec(s, cc)
    IN  [case |-> 1, cc |-> cc + 1, co |-> co,
         stop |-> [fPosition |-> c.t,
                   fColor |-> toSkColor([fR |-> RatInt(c.r), fG |-> RatInt(c.g),
                                         fB |-> RatInt(c.b), fA |-> RatInt(prev_c.fA)])]]

\* case 0x02: opacity-only stop
OpacityOnlyStop(s, c_count, cc, co, prev) ==
    LET prev_c == FromColor(prev.fColor)
        o == OpacityRec(s, c_count, co)
    IN  [case |-> 2, cc |-> cc, co |-> co + 1,
         stop |-> [fPosition |-> o.t,
                   fColor |-> toSkColor([fR |-> RatInt(prev_c.fR), fG |-> RatInt(prev_c.fG),
                                         fB |-> RatInt(prev_c.fB), fA |-> RatInt(o.a)])]]

\* case 0x03, color stop followed by opacity stop: LERP alpha, consume the color stop
ColorFirstStop(s, c_count, cc, co, prev) ==
    LET prev_c == FromColor(prev.fColor)
        cr == ColorRec(s, cc)
        o  == OpacityRec(s, c_count, co)
        rel_t == PinnedRatio(cr.t - prev.fPosition, o.t - prev.fPosition)
    IN  [case |-> 3, cc |-> cc + 1, co |-> co,
         stop |-> [fPosition |-> cr.t,
                   fColor |-> toSkColor([fR |-> RatInt(cr.r), fG |-> RatInt(cr.g),
                                         fB |-> RatInt(cr.b),
                                         fA |-> lerp(prev_c.fA, o.a, rel_t)])]]

\* case 0x03, opacity stop followed by color stop: LERP r/g/b, consume the opacity stop
OpacityFirstStop(s, c_count, cc, co, prev) ==
    LET prev_c == FromColor(prev.fColor)
        cr == ColorRec(s, cc)
        o  == OpacityRec(s, c_count, co)
        rel_t == PinnedRatio(o.t - prev.fPosition, cr.t - prev.fPosition)
    IN  [case |-> 3, cc |-> cc, co |-> co + 1,
         stop |-> [fPosition |-> o.t,
                   fColor |-> toSkColor([fR |-> lerp(prev_c.fR, cr.r, rel_t),
                                         fG |-> lerp(prev_c.fG, cr.g, rel_t),
                                         fB |-> lerp(prev_c.fB, cr.b, rel_t),
                                         fA |-> RatInt(o.a)])]]

\* case 0x03, coincident color and opacity stops: no LERP needed, consume both
\* (variant that consumes only the color record, to validate C4)
CoincidentStopKeepsOpacity(s, c_count, cc, co, prev) == ColorFirstStop(s, c_count, cc, co, prev)
CoincidentStop(s, c_count, cc, co, prev) ==
    LET cr == ColorRec(s, cc)
        o  == OpacityRec(s, c_count, co)
    IN  [case |-> 3, cc |-> cc + 1, co |-> co + 1,
         stop |-> [fPosition |-> cr.t,
                   fColor |-> toSkColor([fR |-> RatInt(cr.r), fG |-> RatInt(cr.g),
                                         fB |-> RatInt(cr.b), fA |-> RatInt(o.a)])]]

\* next_stop(): with no record left the switch reaches SkUNREACHABLE (case 0)
NextStop(s, c_count, o_count, cc, co, prev) ==
    LET has_color_stop   == IF cc < c_count THEN 1 ELSE 0
        has_opacity_stop == IF co < o_count THEN 1 ELSE 0
        case == has_color_stop + 2 * has_opacity_stop
    IN  IF case = 1 THEN ColorOnlyStop(s, c_count, cc, co, prev)
        ELSE IF case = 2 THEN OpacityOnlyStop(s, c_count, cc, co, prev)
        ELSE IF case = 3 THEN
            LET t_rgb == ColorRec(s, cc).t
                t_a   == OpacityRec(s, c_count, co).t
            IN  IF SkScalarNearlyEqual(t_rgb, t_a)
                THEN CoincidentStop(s, c_count, cc, co, prev)
                ELSE IF t_rgb < t_a
                     THEN ColorFirstStop(s, c_count, cc, co, prev)
                     ELSE OpacityFirstStop(s, c_count, cc, co, prev)
        ELSE [case |-> 0, cc |-> cc, co |-> co, stop |-> prev]

\* the while loop run to its end: the vector handed to setColorStops
RECURSIVE MergeWalk(_, _, _, _, _, _, _)
MergeWalk(s, c_count, o_count, cc, co, prev, acc) ==
    IF LoopCond(cc, co, c_count, o_count)
    THEN LET n == NextStop(s, c_count, o_count, cc, co, prev)
         IN  MergeWalk(s, c_count, o_count, n.cc, n.co, n.stop, Append(acc, n.stop))
    ELSE acc

(***************************************************************************)
(* Linear / radial end points                                              *)
(***************************************************************************)
\* integer square root, exact on the distances of the points used
RECURSIVE ISqrtFrom(_, _)
ISqrtFrom(n, k) == IF (k + 1) * (k + 1) > n THEN k ELSE ISqrtFrom(n, k + 1)

\* SkPoint::Distance
Distance(p, q) ==
    ISqrtFrom((p[1] - q[1]) * (p[1] - q[1]) + (p[2] - q[2]) * (p[2] - q[2]), 0)

\* LinearGradientAdapter::onApply / RadialGradientAdapter::onApply
\* (variant in which the hook does not run, to validate C2)
onApplySkipped(kind, node, start, end) == node
onApply(kind, node, start, end) ==
    IF kind = "Linear"
    THEN [node EXCEPT !.startPoint = start, !.endPoint = end]
    ELSE [node EXCEPT !.startCenter = start, !.endCenter = start,
                      !.startRadius = 0, !.endRadius = Distance(start, end)]

\* sksg::Gradient::setColorStops
setColorStops(node, newStops) == [node EXCEPT !.colorStops = newStops]

\* the node as constructed
NewGradientNode(kind) ==
    IF kind = "Linear"
    THEN [colorStops |-> <<>>, startPoint |-> <<0, 0>>, endPoint |-> <<0, 0>>]
    ELSE [colorStops |-> <<>>, startCenter |-> <<0, 0>>, endCenter |-> <<0, 0>>,
          startRadius |-> 0, endRadius |-> 0]

(***************************************************************************)
(* Inputs of the gradient adapter                                          *)
(***************************************************************************)
RECURSIVE Flatten(_)
Flatten(ss) == IF ss = <<>> THEN <<>> ELSE Head(ss) \o Flatten(Tail(ss))

SeqsOfLen(S, n) == [1..n -> S]
SeqsUpTo(S, n) == UNION {SeqsOfLen(S, k) : k \in 0..n}

\* well-formed packed sequences: c color records, then up to maxO opacity records
PackedStops(c, maxO, CR, OR) ==
    {Flatten(cs) \o Flatten(os) : cs \in SeqsOfLen(CR, c), os \in SeqsUpTo(OR, maxO)}

\* every sequence the property setter may hand over for c color stops: the
\* well-formed ones, those with one float too many, those one or two floats
\* short of the color records, and the empty one
StopInputs(c, maxO, CR, OR) ==
    LET good == PackedStops(c, maxO, CR, OR)
    IN  good \cup {g \o <<0>> : g \in good}
             \cup {SubSeq(g, 1, n) : g \in PackedStops(c, 0, CR, OR), n \in (4 * c - 2)..(4 * c - 1)}
             \cup {<<>>}

\* records (t, r, g, b) and (t, a) of the adapter driven by setters
GradColorRecs == {<<0, 510, 0, 0>>, <<4096, 0, 0, 510>>}
GradOpacityRecs == {<<2048, 0>>, <<4096, 510>>}
PointVals == {<<0, 0>>, <<3, 4>>}

\* records of the stop sequences whose merge-walk is stepped
WalkTVals == {0, 2048, 2049, 4096}
WalkColorRecs == {<<t, c[1], c[2], c[3]>> : t \in WalkTVals, c \in {<<510, 0, 0>>, <<0, 255, 510>>}}
WalkOpacityRecs == {<<t, a>> : t \in WalkTVals, a \in {0, 255, 510}}

(***************************************************************************)
(* Gradient adapter: property setters and apply()                          *)
(***************************************************************************)
InitGradient ==
    /\ gradKind \in {"Linear", "Radial"}
    /\ fColorStopCount \in 0..MaxStopRecs
    /\ fStops = <<>>
    /\ fStartPoint = <<0, 0>>
    /\ fEndPoint = <<0, 0>>
    /\ fGradient = NewGradientNode(gradKind)
    /\ applyLog = <<>>

InitWalk ==
    /\ pc = "idle"
    /\ current_c = 0
    /\ current_o = 0
    /\ prev_stop = [fPosition |-> 0, fColor |-> SK_ColorBLACK]
    /\ stops = <<>>

setStops(s) ==
    /\ fStops' = s
    /\ lastOp' = "set"
    /\ UNCHANGED <<gradKind, fColorStopCount, fStartPoint, fEndPoint, fGradient, applyLog>>
    /\ UNCHANGED <<walkVars, trimVars, repVars, drvVars, polyVars>>

setStartPoint(p) ==
    /\ fStartPoint' = p
    /\ lastOp' = "set"
    /\ UNCHANGED <<gradKind, fColorStopCount, fStops, fEndPoint, fGradient, applyLog>>
    /\ UNCHANGED <<walkVars, trimVars, repVars, drvVars, polyVars>>

setEndPoint(p) ==
    /\ fEndPoint' = p
    /\ lastOp' = "set"
    /\ UNCHANGED <<gradKind, fColorStopCount, fStops, fStartPoint, fGradient, applyLog>>
    /\ UNCHANGED <<walkVars, trimVars, repVars, drvVars, polyVars>>

\* GradientAdapter::apply(), start to return
GradientApply ==
    LET c_count == fColorStopCount
        o_count == OpacityCount(Len(fStops), c_count)
        hooked  == onApply(gradKind, fGradient, fStartPoint, fEndPoint)
    IN  /\ pc = "idle"
        /\ IF InvalidStops(Len(fStops), c_count)
           THEN /\ fGradient' = hooked
                /\ applyLog' = <<"onApply">> \o Diagnostic(fStops)
           ELSE /\ fGradient' = setColorStops(hooked,
                                   MergeWalk(fStops, c_count, o_count, 0, 0,
                                             SeedPrevStop(fStops, c_count, o_count), <<>>))
                /\ applyLog' = <<"onApply", "setColorStops">>
        /\ lastOp' = "apply"
        /\ UNCHANGED <<gradKind, fColorStopCount, fStops, fStartPoint, fEndPoint>>
        /\ UNCHANGED <<walkVars, trimVars, repVars, drvVars, polyVars>>

NextGradient ==
    \/ \E s \in StopInputs(fColorStopCount, MaxStopRecs - fColorStopCount,
                             GradColorRecs, GradOpacityRecs) :
          setStops(s)
    \/ \E p \in PointVals : setStartPoint(p)
    \/ \E p \in PointVals : setEndPoint(p)
    \/ GradientApply

(***************************************************************************)
(* GradientAdapter::apply() statement by statement                         *)
(***************************************************************************)
\* lines 273-313: the subtype hook, the validity test, the cursors, prev_stop
ApplyEnter ==
    LET c_count == fColorStopCount
        o_count == OpacityCount(Len(fStops), c_count)
        hooked  == onApply(gradKind, fGradient, fStartPoint, fEndPoint)
    IN  /\ pc = "idle"
        /\ fGradient' = hooked
        /\ IF InvalidStops(Len(fStops), c_count)
           THEN /\ applyLog' = <<"onApply">> \o Diagnostic(fStops)
                /\ pc' = "returned"
                /\ UNCHANGED <<current_c, current_o, prev_stop, stops>>
           ELSE /\ applyLog' = <<"onApply">>
                /\ pc' = "while"
                /\ current_c' = 0
                /\ current_o' = 0
                /\ prev_stop' = SeedPrevStop(fStops, c_count, o_count)
                /\ stops' = <<>>
        /\ lastOp' = "enter"
        /\ UNCHANGED <<gradKind, fColorStopCount, fStops, fStartPoint, fEndPoint>>
        /\ UNCHANGED <<trimVars, repVars, drvVars, polyVars>>

\* line 392: the loop test
LoopTest ==
    /\ pc = "while"
    /\ pc' = IF LoopCond(current_c, current_o, fColorStopCount,
                         OpacityCount(Len(fStops), fColorStopCount))
             THEN "next_stop" ELSE "setColorStops"
    /\ lastOp' = "while"
    /\ UNCHANGED <<current_c, current_o, prev_stop, stops>>
    /\ UNCHANGED <<gradVars, trimVars, repVars, drvVars, polyVars>>

\* lines 393-394: prev_stop = next_stop(); stops.push_back(prev_stop)
EmitStop ==
    LET n == NextStop(fStops, fColorStopCount, OpacityCount(Len(fStops), fColorStopCount),
                      current_c, current_o, prev_stop)
    IN  /\ pc = "next_stop"
        /\ IF n.case = 0
           THEN /\ pc' = "unreachable"
                /\ UNCHANGED <<current_c, current_o, prev_stop, stops>>
           ELSE /\ pc' = "while"
                /\ current_c' = n.cc
                /\ current_o' = n.co
                /\ prev_stop' = n.stop
                /\ stops' = Append(stops, n.stop)
        /\ lastOp' = "next_stop"
        /\ UNCHANGED <<gradVars, trimVars, repVars, drvVars, polyVars>>

\* lines 397-398: setColorStops(std::move(stops))
PushStops ==
    /\ pc = "setColorStops"
    /\ fGradient' = setColorStops(fGradient, stops)
    /\ applyLog' = Append(applyLog, "setColorStops")
    /\ pc' = "done"
    /\ lastOp' = "apply"
    /\ UNCHANGED <<current_c, current_o, prev_stop, stops>>
    /\ UNCHANGED <<gradKind, fColorStopCount, fStops, fStartPoint, fEndPoint>>
    /\ UNCHANGED <<trimVars, repVars, drvVars, polyVars>>

NextWalk == ApplyEnter \/ LoopTest \/ EmitStop \/ PushStops

(***************************************************************************)
(* TrimEffectAdapter                                                       *)
(***************************************************************************)
\* SkScalar is an IEEE-754 binary32 float: sign s, significand m < 2^24 and
\* exponent e, the value being s * m * 2^e, with m >= 2^23 unless the value
\* is zero.  Every operation rounds its exact result to nearest, ties to even.
F32Zero == [s |-> 1, m |-> 0, e |-> 0]

\* the number of bits of n > 0
BitLen(n) == IF n = 0 THEN 0 ELSE CHOOSE k \in 1..30 : 2^(k-1) <= n /\ n < 2^k

\* the float nearest to s * (M + f) * 2^E, where 0 < f < 1 if sticky and
\* f = 0 otherwise (M carries at least three bits below the result's last
\* bit whenever sticky)
F32Round(s, M, E, sticky) ==
    IF M = 0 THEN F32Zero
    ELSE LET n == BitLen(M)
         IN  IF n <= 24
             THEN [s |-> s, m |-> M * 2^(24 - n), e |-> E - (24 - n)]
             ELSE LET k    == n - 24
                      q    == M \div 2^k
                      rem  == M % 2^k
                      half == 2^(k - 1)
                      up   == rem > half \/ (rem = half /\ (sticky \/ q % 2 = 1))
                      q1   == IF up THEN q + 1 ELSE q
                  IN  IF q1 = 2^24
                      THEN [s |-> s, m |-> 2^23, e |-> E + k + 1]
                      ELSE [s |-> s, m |-> q1, e |-> E + k]

\* the float of the integer n
F32Int(n) == F32Round(IF n < 0 THEN -1 ELSE 1, Abs(n), 0, FALSE)

\* <<n * 2^k \div d, its remainder>>, bit by bit
RECURSIVE LongDiv(_, _, _)
LongDiv(n, d, k) ==
    IF k = 0 THEN <<n \div d, n % d>>
    ELSE LET p == LongDiv(n, d, k - 1)
         IN  <<2 * p[1] + (2 * p[2]) \div d, (2 * p[2]) % d>>

\* x / d in float, for integers x and d > 0 that floats hold exactly
F32Div(x, d) ==
    IF x = 0 THEN F32Zero
    ELSE LET n == Abs(x)
             k == 27 + BitLen(d) - BitLen(n)
             p == LongDiv(n, d, k)
         IN  F32Round(IF x < 0 THEN -1 ELSE 1, p[1], -k, p[2] # 0)

F32Neg(a) == IF a.m = 0 THEN a ELSE [a EXCEPT !.s = -a.s]

\* a + b in float
F32Add(a, b) ==
    IF a.m = 0 THEN b
    ELSE IF b.m = 0 THEN a
    ELSE LET aBig   == a.e > b.e \/ (a.e = b.e /\ a.m >= b.m)
             hi     == IF aBig THEN a ELSE b
             lo     == IF aBig THEN b ELSE a
             d      == hi.e - lo.e
             H      == 8 * hi.m
             Lq     == IF d > 27 THEN 0 ELSE (8 * lo.m) \div 2^d
             sticky == IF d > 27 THEN TRUE ELSE (8 * lo.m) % 2^d # 0
         IN  IF hi.s = lo.s
             THEN F32Round(hi.s, H + Lq, hi.e - 3, sticky)
             ELSE F32Round(hi.s, H - Lq - (IF sticky THEN 1 ELSE 0), hi.e - 3, sticky)

F32Sub(a, b) == F32Add(a, F32Neg(b))

\* a < b, a <= b
F32Less(a, b) == LET d == F32Sub(a, b) IN d.m # 0 /\ d.s = -1
F32LessEq(a, b) == ~F32Less(b, a)

\* SkScalarFloorToScalar(a), for |a| < 2^24
SkScalarFloorToScalar(a) ==
    IF a.e >= 0 THEN a
    ELSE LET k    == -a.e
             ip   == IF k > 24 THEN 0 ELSE a.m \div 2^k
             frac == IF k > 24 THEN a.m ELSE a.m % 2^k
         IN  F32Int(IF a.s = 1 THEN ip
                    ELSE -(ip + (IF frac # 0 THEN 1 ELSE 0)))

SkTMin(a, b) == IF F32Less(a, b) THEN a ELSE b
SkTMax(a, b) == IF F32Less(b, a) THEN a ELSE b

\* start = fStart / 100, end = fEnd / 100, offset = fOffset / 360;
\* SkTMin(start, end) + offset, SkTMax(start, end) + offset  (lines 430-435)
\* (variant without SkTMin/SkTMax, to validate C5)
UnorderedRange(start, end, offset) ==
    [startT |-> F32Add(F32Div(start, 100), F32Div(offset, 360)),
     stopT  |-> F32Add(F32Div(end, 100), F32Div(offset, 360))]
OrderedRange(start, end, offset) ==
    [startT |-> F32Add(SkTMin(F32Div(start, 100), F32Div(end, 100)),
                       F32Div(offset, 360)),
     stopT  |-> F32Add(SkTMax(F32Div(start, 100), F32Div(end, 100)),
                       F32Div(offset, 360))]

\* stopT - startT < 1  (line 438)
SpanWithinCycle(r) == F32Less(F32Sub(r.stopT, r.startT), F32Int(1))

\* x -= SkScalarFloorToScalar(x), both ends  (lines 439-440)
WrappedRange(r) ==
    [startT |-> F32Sub(r.startT, SkScalarFloorToScalar(r.startT)),
     stopT  |-> F32Sub(r.stopT, SkScalarFloorToScalar(r.stopT))]

\* what apply() pushes to the node  (lines 436-454)
TrimRange(start, end, offset) ==
    LET r == OrderedRange(start, end, offset)
    IN  IF SpanWithinCycle(r)
        THEN LET w == WrappedRange(r)
             IN  IF F32Less(w.stopT, w.startT)
                 THEN [start |-> w.stopT, stop |-> w.startT, mode |-> "Inverted"]
                 ELSE [start |-> w.startT, stop |-> w.stopT, mode |-> "Normal"]
        ELSE [start |-> F32Int(0), stop |-> F32Int(1), mode |-> "Normal"]

InitTrim ==
    /\ fStart = 0
    /\ fEnd = 100
    /\ fOffset = 0
    /\ fTrimEffect = [start |-> F32Int(0), stop |-> F32Int(1), mode |-> "Normal"]

setStart(v) ==
    /\ fStart' = v
    /\ lastOp' = "set"
    /\ UNCHANGED <<fEnd, fOffset, fTrimEffect>>
    /\ UNCHANGED <<gradVars, walkVars, repVars, drvVars, polyVars>>

setEnd(v) ==
    /\ fEnd' = v
    /\ lastOp' = "set"
    /\ UNCHANGED <<fStart, fOffset, fTrimEffect>>
    /\ UNCHANGED <<gradVars, walkVars, repVars, drvVars, polyVars>>

setOffset(v) ==
    /\ fOffset' = v
    /\ lastOp' = "set"
    /\ UNCHANGED <<fStart, fEnd, fTrimEffect>>
    /\ UNCHANGED <<gradVars, walkVars, repVars, drvVars, polyVars>>

\* TrimEffectAdapter::apply()
TrimApply ==
    /\ fTrimEffect' = TrimRange(fStart, fEnd, fOffset)
    /\ lastOp' = "apply"
    /\ UNCHANGED <<fStart, fEnd, fOffset>>
    /\ UNCHANGED <<gradVars, walkVars, repVars, drvVars, polyVars>>

\* start and end run over multiples of ten percent near 0 and near 100,
\* offset over twentieths of a turn and one or two full turns either way
MaxPctK == 1
MaxOffsetK == 2
PctVals == {10 * k : k \in -1..MaxPctK} \cup {100 - 10 * k : k \in 0..MaxPctK}
OffsetVals == {18 * k : k \in -MaxOffsetK..MaxOffsetK} \cup {-720, -360, 360, 720}

NextTrim ==
    \/ \E v \in PctVals : setStart(v)
    \/ \E v \in PctVals : setEnd(v)
    \/ \E v \in OffsetVals : setOffset(v)
    \/ TrimApply

(***************************************************************************)
(* RepeaterAdapter                                                         *)
(***************************************************************************)
kMaxCount == 512

\* static_cast<size_t>(SkTPin(fCount, 0.0f, kMaxCount) + 0.5f), fCount in quarters
RepeatCount(q) == (Max(0, Min(q, 4 * kMaxCount)) + 2) \div 4

\* compute_transform(index): the matrix, kept as the arguments of the calls
\* that compose it (lines 206-219)
compute_transform(index) ==
    LET t == fRepOffset + index
    IN  [trans      |-> <<-fAnchorPoint[1], -fAnchorPoint[2]>>,
         postScale  |-> [base |-> fScale, exponent |-> fRepOffset],
         postRotate |-> t * fRepRotation,
         postTranslate |-> <<t * fRepPosition[1] + fAnchorPoint[1],
                             t * fRepPosition[2] + fAnchorPoint[2]>>]

\* fRoot->clear()  (line 224)
\* (variant that keeps the children, to validate C7)
clearSkipped(root) == root
clear(root) == <<>>

\* insert_index  (line 226)
insert_index(i, count) == IF fComposite = "Above" THEN i ELSE count - i - 1

\* the for loop (lines 225-229): iteration i, from 0, appends one child
AddChildren(count, root) ==
    root \o [k \in 1..count |-> compute_transform(insert_index(k - 1, count))]

InitRepeater(composites) ==
    /\ fComposite \in composites
    /\ fCount = 0
    /\ fRepOffset = 0
    /\ fRepRotation = 0
    /\ fRepPosition = <<0, 0>>
    /\ fAnchorPoint = <<0, 0>>
    /\ fScale = <<100, 100>>
    /\ fRoot = <<>>

setCount(v) ==
    /\ fCount' = v
    /\ lastOp' = "set"
    /\ UNCHANGED <<fComposite, fRepOffset, fRepRotation, fRepPosition, fAnchorPoint, fScale, fRoot>>
    /\ UNCHANGED <<gradVars, walkVars, trimVars, drvVars, polyVars>>

setRepOffset(v) ==
    /\ fRepOffset' = v
    /\ lastOp' = "set"
    /\ UNCHANGED <<fComposite, fCount, fRepRotation, fRepPosition, fAnchorPoint, fScale, fRoot>>
    /\ UNCHANGED <<gradVars, walkVars, trimVars, drvVars, polyVars>>

setRepRotation(v) ==
    /\ fRepRotation' = v
    /\ lastOp' = "set"
    /\ UNCHANGED <<fComposite, fCount, fRepOffset, fRepPosition, fAnchorPoint, fScale, fRoot>>
    /\ UNCHANGED <<gradVars, walkVars, trimVars, drvVars, polyVars>>

setRepPosition(v) ==
    /\ fRepPosition' = v
    /\ lastOp' = "set"
    /\ UNCHANGED <<fComposite, fCount, fRepOffset, fRepRotation, fAnchorPoint, fScale, fRoot>>
    /\ UNCHANGED <<gradVars, walkVars, trimVars, drvVars, polyVars>>

\* RepeaterAdapter::apply()
RepeaterApply ==
    /\ fRoot' = AddChildren(RepeatCount(fCount), clear(fRoot))
    /\ lastOp' = "apply"
    /\ UNCHANGED <<fComposite, fCount, fRepOffset, fRepRotation, fRepPosition, fAnchorPoint, fScale>>
    /\ UNCHANGED <<gradVars, walkVars, trimVars, drvVars, polyVars>>

\* counts in quarters: from below zero up to MaxCountQ, and around kMaxCount.
\* The anchor point and the scale stay as constructed.
MaxCountQ == 10
CountVals == (-1..MaxCountQ) \cup {4 * kMaxCount - 2, 4 * kMaxCount + 4}

NextRepeater ==
    \/ \E v \in CountVals : setCount(v)
    \/ \E v \in {0, 1} : setRepOffset(v)
    \/ \E v \in {0, 30} : setRepRotation(v)
    \/ \E v \in {<<0, 0>>, <<10, 5>>} : setRepPosition(v)
    \/ RepeaterApply

(***************************************************************************)
(* DiscardableAdaptorBase                                                  *)
(***************************************************************************)
MaxAnimators == 3
MaxTicks == 2
MaxTime == 2
AnimatorIds == 1..MaxAnimators
Times == 0..MaxTime

\* fAnimators = std::move(animators)  (line 37)
\* (variant that keeps the old list, to validate C8)
moveAssignAppends(old, new) == old \o new
moveAssign(old, new) == new

\* the calls of onTick(t) (lines 41-45): tick(t) on each animator of the
\* list in order, then onSync()
RECURSIVE TickEach(_, _)
TickEach(list, t) ==
    IF list = <<>> THEN <<>>
    ELSE <<[call |-> "tick", animator |-> Head(list), t |-> t]>> \o TickEach(Tail(list), t)

onTickCalls(list, t) ==
    TickEach(list, t) \o <<[call |-> "onSync", animator |-> 0, t |-> -1]>>

\* the animators' times after the calls
TimesAfter(calls, before) ==
    [a \in AnimatorIds |->
        LET hits == {i \in DOMAIN calls : calls[i].call = "tick" /\ calls[i].animator = a}
        IN  IF hits = {} THEN before[a]
            ELSE calls[CHOOSE i \in hits : \A j \in hits : j <= i].t]

InitDriver ==
    /\ fAnimators = <<>>
    /\ destroyed = {}
    /\ animTime = [a \in AnimatorIds |-> -1]
    /\ tickLog = <<>>
    /\ numTicks = 0
    /\ lastTicks = <<-1, -1>>
    /\ lastSet = <<>>

\* lists of animators just made: each owned by one unique_ptr, so none is in
\* the driver's list and none was destroyed
FreshLists ==
    LET fresh == AnimatorIds \ (destroyed \cup {fAnimators[i] : i \in DOMAIN fAnimators})
    IN  {l \in SeqsUpTo(fresh, Cardinality(fresh)) :
            \A i, j \in DOMAIN l : i # j => l[i] # l[j]}

\* DiscardableAdaptorBase::setAnimators
setAnimators(animators) ==
    /\ fAnimators' = moveAssign(fAnimators, animators)
    /\ destroyed' = destroyed \cup {fAnimators[i] : i \in DOMAIN fAnimators}
    /\ lastSet' = animators
    /\ lastOp' = "setAnimators"
    /\ UNCHANGED <<animTime, tickLog, numTicks, lastTicks>>
    /\ UNCHANGED <<gradVars, walkVars, trimVars, repVars, polyVars>>

\* DiscardableAdaptorBase::onTick
onTick(t) ==
    /\ numTicks < MaxTicks
    /\ tickLog' = onTickCalls(fAnimators, t)
    /\ animTime' = TimesAfter(tickLog', animTime)
    /\ numTicks' = numTicks + 1
    /\ lastTicks' = <<lastTicks[2], t>>
    /\ lastOp' = "onTick"
    /\ UNCHANGED <<fAnimators, destroyed, lastSet>>
    /\ UNCHANGED <<gradVars, walkVars, trimVars, repVars, polyVars>>

NextDriver ==
    \/ \E l \in FreshLists : setAnimators(l)
    \/ \E t \in Times : onTick(t)

(***************************************************************************)
(* PolyStarAdapter                                                         *)
(***************************************************************************)
kMaxPointCount == 100000

\* SkToUInt(SkTPin(SkScalarRoundToInt(fPointCount), 0, kMaxPointCount)),
\* fPointCount in halves: SkScalarRoundToInt is floor(x + 0.5)
PointCount(h) == Max(0, Min((h + 1) \div 2, kMaxPointCount))

\* A point pt_on_circle(fPosition, r, angle) is kept as r and the angle, the
\* angle as the number of half arcs past the starting angle fRotation - 90.
\* The lineTo calls of the loop (lines 256-262), k-th call from 1: a star's
\* iteration i makes calls 2i+1 (inner, at angle + arc/2) and 2i+2 (outer, at
\* angle + arc); a polygon's iteration i makes call i+1 (outer).
\* (variant with the two lineTo of a star iteration exchanged, to validate C9)
lineToCallsInnerLast(type, count, inner, outer) ==
    IF type = "Star"
    THEN [k \in 1..(2 * count) |->
            IF k % 2 = 0 THEN [verb |-> "lineTo", r |-> inner, half |-> k - 1]
                         ELSE [verb |-> "lineTo", r |-> outer, half |-> k + 1]]
    ELSE [k \in 1..count |-> [verb |-> "lineTo", r |-> outer, half |-> 2 * k]]
lineToCalls(type, count, inner, outer) ==
    IF type = "Star"
    THEN [k \in 1..(2 * count) |->
            IF k % 2 = 1 THEN [verb |-> "lineTo", r |-> inner, half |-> k]
                         ELSE [verb |-> "lineTo", r |-> outer, half |-> k]]
    ELSE [k \in 1..count |-> [verb |-> "lineTo", r |-> outer, half |-> 2 * k]]

\* the path apply() builds (lines 250-264)
PolyPath(type, count, position, inner, outer, rotation) ==
    [center |-> position,
     angle0 |-> rotation - 90,
     arcs   |-> count,
     verbs  |-> <<[verb |-> "moveTo", r |-> outer, half |-> 0]>>
                \o lineToCalls(type, count, inner, outer)
                \o <<[verb |-> "close", r |-> 0, half |-> 0]>>]

EmptyPath == [center |-> <<0, 0>>, angle0 |-> 0, arcs |-> 0, verbs |-> <<>>]

\* PolyStarAdapter::apply()
PolyStarApply ==
    /\ fPathNode' = PolyPath(fType, PointCount(fPointCount), fPosition,
                             fInnerRadius, fOuterRadius, fRotation)
    /\ lastOp' = "apply"
    /\ UNCHANGED <<fType, fPointCount, fPosition, fInnerRadius, fOuterRadius, fRotation>>
    /\ UNCHANGED <<gradVars, walkVars, trimVars, repVars, drvVars>>

\* point counts in halves: from below zero up to MaxPointH, and around kMaxPointCount
MaxPointH == 12
PointCountVals == (-3..MaxPointH) \cup {2 * kMaxPointCount - 1, 2 * kMaxPointCount + 2}

InitPolyStar(types, counts, radii, rotations) ==
    /\ fType \in types
    /\ fPointCount \in counts
    /\ fPosition = <<0, 0>>
    /\ fInnerRadius \in radii
    /\ fOuterRadius \in radii
    /\ fRotation \in rotations
    /\ fPathNode = EmptyPath

NextPolyStar == PolyStarApply

(***************************************************************************)
(* Specifications                                                          *)
(***************************************************************************)
\* the adapters a specification does not run, as constructed
IdleGradient == gradKind = "Linear" /\ fColorStopCount = 0 /\ InitGradient /\ InitWalk
IdleRepeater == InitRepeater({"Above"})
IdlePolyStar == InitPolyStar({"Polygon"}, {0}, {0}, {0})

\* a gradient adapter whose setters and apply() run in any order
InitSpecGradient ==
    /\ lastOp = "new"
    /\ InitGradient /\ InitWalk
    /\ InitTrim /\ IdleRepeater /\ InitDriver /\ IdlePolyStar
SpecGradient == InitSpecGradient /\ [][NextGradient]_vars

\* one apply() of a gradient adapter holding any stop sequence, stepped through
InitSpecWalk ==
    /\ lastOp = "new"
    /\ gradKind = "Linear"
    /\ fColorStopCount \in 0..MaxRecs
    /\ fStops \in StopInputs(fColorStopCount, MaxRecs - fColorStopCount,
                             WalkColorRecs, WalkOpacityRecs)
    /\ fStartPoint = <<0, 0>>
    /\ fEndPoint = <<0, 0>>
    /\ fGradient = NewGradientNode(gradKind)
    /\ applyLog = <<>>
    /\ InitWalk
    /\ InitTrim /\ IdleRepeater /\ InitDriver /\ IdlePolyStar
SpecWalk == InitSpecWalk /\ [][NextWalk]_vars

\* a trim adapter whose setters and apply() run in any order
InitSpecTrim ==
    /\ lastOp = "new"
    /\ InitTrim
    /\ IdleGradient /\ IdleRepeater /\ InitDriver /\ IdlePolyStar
SpecTrim == InitSpecTrim /\ [][NextTrim]_vars

\* a repeater adapter whose setters and apply() run in any order
InitSpecRepeater ==
    /\ lastOp = "new"
    /\ InitRepeater({"Above", "Below"})
    /\ IdleGradient /\ InitTrim /\ InitDriver /\ IdlePolyStar
SpecRepeater == InitSpecRepeater /\ [][NextRepeater]_vars

\* a driver whose setAnimators and onTick run in any order
InitSpecDriver ==
    /\ lastOp = "new"
    /\ InitDriver
    /\ IdleGradient /\ InitTrim /\ IdleRepeater /\ IdlePolyStar
SpecDriver == InitSpecDriver /\ [][NextDriver]_vars

\* one apply() of a polystar adapter whose properties were set to any values
InitSpecPolyStar ==
    /\ lastOp = "new"
    /\ InitPolyStar({"Star", "Polygon"}, PointCountVals, {5, 10}, {0, 45})
    /\ IdleGradient /\ InitTrim /\ IdleRepeater /\ InitDriver
SpecPolyStar == InitSpecPolyStar /\ [][NextPolyStar]_vars

(***************************************************************************)
(* Properties                                                              *)
(***************************************************************************)
Range(f) == {f[i] : i \in DOMAIN f}

\* a length that fits no partition into c_count color records and whole opacity records
Malformed(s, c_count) == Len(s) < 4 * c_count \/ (Len(s) - 4 * c_count) % 2 = 1

\* C1: apply() on a malformed stop sequence leaves the node's color stops as
\* they were and never calls setColorStops; it calls SkDebugf exactly when the
\* sequence is not empty.
C1_MalformedKeepsStops ==
    [][(lastOp' = "apply" /\ Malformed(fStops, fColorStopCount))
         => /\ fGradient'.colorStops = fGradient.colorStops
            /\ "setColorStops" \notin Range(applyLog')
            /\ ("SkDebugf" \in Range(applyLog')) <=> (fStops # <<>>)]_vars

\* C1 witness: apply() has just run on a non-empty malformed sequence, logged
\* it, and the node still holds stops pushed by an earlier apply().
C1_Witness ==
    /\ lastOp = "apply"
    /\ fStops # <<>>
    /\ Malformed(fStops, fColorStopCount)
    /\ "SkDebugf" \in Range(applyLog)
    /\ fGradient.colorStops # <<>>

\* C2 as stated: apply() on a malformed stop sequence leaves every piece of
\* node state as it was.
C2_MalformedKeepsNode ==
    [][(lastOp' = "apply" /\ Malformed(fStops, fColorStopCount))
         => fGradient' = fGradient]_vars

\* C2 amended: apply() on a malformed stop sequence leaves the color stops as
\* they were, and sets the end points from the adapter's current properties:
\* the subtype hook runs before the stops are validated.
C2_MalformedKeepsStopsSetsPoints ==
    [][(lastOp' = "apply" /\ Malformed(fStops, fColorStopCount))
         => /\ fGradient'.colorStops = fGradient.colorStops
            /\ gradKind = "Linear"
                 => /\ fGradient'.startPoint = fStartPoint
                    /\ fGradient'.endPoint = fEndPoint
            /\ gradKind = "Radial"
                 => /\ fGradient'.startCenter = fStartPoint
                    /\ fGradient'.endCenter = fStartPoint
                    /\ fGradient'.startRadius = 0
                    /\ fGradient'.endRadius * fGradient'.endRadius =
                         (fStartPoint[1] - fEndPoint[1]) * (fStartPoint[1] - fEndPoint[1])
                         + (fStartPoint[2] - fEndPoint[2]) * (fStartPoint[2] - fEndPoint[2])]_vars

\* C2 witness: apply() has just run on a malformed sequence of a radial
\* adapter whose end point had moved; the node kept its stops and took the
\* new radius.
C2_Witness ==
    /\ lastOp = "apply"
    /\ Malformed(fStops, fColorStopCount)
    /\ gradKind = "Radial"
    /\ fGradient.colorStops # <<>>
    /\ fGradient.endRadius = 5
    /\ fEndPoint = <<3, 4>>

\* the counts apply() derives from the sequence it holds
c_count == fColorStopCount
o_count == OpacityCount(Len(fStops), fColorStopCount)

\* two color records at t = 0 and t = 1, one opacity record (t = 0.5, a = 0)
C3_Scenario ==
    /\ fColorStopCount = 2
    /\ Len(fStops) = 10
    /\ fStops[1] = 0 /\ fStops[5] = 4096
    /\ fStops[9] = 2048 /\ fStops[10] = 0

\* the 8-bit channel half way from the 8-bit channel x8 to the channel float y
HalfWay(x8, y) == (2 * x8 + y + 2) \div 4

\* what C3 says of the three stops, but for the alpha of the first
C3_ThreeStops(out) ==
    /\ Len(out) = 3
    /\ out[1].fPosition = 0
    /\ out[1].fColor.r = ChannelToU8(RatInt(fStops[2]))
    /\ out[1].fColor.g = ChannelToU8(RatInt(fStops[3]))
    /\ out[1].fColor.b = ChannelToU8(RatInt(fStops[4]))
    /\ out[2].fPosition = 2048
    /\ out[2].fColor.a = 0
    /\ out[2].fColor.r = HalfWay(out[1].fColor.r, fStops[6])
    /\ out[2].fColor.g = HalfWay(out[1].fColor.g, fStops[7])
    /\ out[2].fColor.b = HalfWay(out[1].fColor.b, fStops[8])
    /\ out[3].fPosition = 4096
    /\ out[3].fColor.r = ChannelToU8(RatInt(fStops[6]))
    /\ out[3].fColor.g = ChannelToU8(RatInt(fStops[7]))
    /\ out[3].fColor.b = ChannelToU8(RatInt(fStops[8]))

\* C3 as stated: in the scenario apply() pushes a color stop at t = 0 with
\* alpha 1, a stop at t = 0.5 with alpha 0 and r/g/b half way between the two
\* color records, and a color stop at t = 1.
C3_FirstStopOpaque ==
    (pc = "done" /\ C3_Scenario)
        => /\ C3_ThreeStops(fGradient.colorStops)
           /\ fGradient.colorStops[1].fColor.a = 255

\* C3 amended: the same three stops, but the stop at t = 0 has alpha 0: the
\* previous stop is seeded with the first opacity record's alpha, and the
\* color stop at t = 0 lies at relative position 0 from it.
C3_FirstStopTakesSeedAlpha ==
    (pc = "done" /\ C3_Scenario)
        => /\ C3_ThreeStops(fGradient.colorStops)
           /\ fGradient.colorStops[1].fColor.a = 0

\* C3 witness: apply() has returned in the scenario, the two color records
\* differing in every channel, and pushed three stops.
C3_Witness ==
    /\ pc = "done"
    /\ C3_Scenario
    /\ fStops[2] # fStops[6] /\ fStops[3] # fStops[7] /\ fStops[4] # fStops[8]
    /\ Len(fGradient.colorStops) = 3

\* the pairs the walk meets with both cursors on records of nearly equal t
RECURSIVE CoincidentPairs(_, _, _, _, _)
CoincidentPairs(s, c, o, i, j) ==
    IF i >= c \/ j >= o THEN 0
    ELSE LET tc == s[4 * i + 1]
             to == s[4 * c + 2 * j + 1]
         IN  IF Abs(tc - to) <= 1 THEN 1 + CoincidentPairs(s, c, o, i + 1, j + 1)
             ELSE IF tc < to THEN CoincidentPairs(s, c, o, i + 1, j)
             ELSE CoincidentPairs(s, c, o, i, j + 1)

\* C4: when next_stop() runs with both cursors on records of equal t, it
\* emits one stop at that t with the color record's r/g/b and the opacity
\* record's alpha, whatever the previous stop, and advances both cursors by
\* one; c color and o opacity records with k coincident pairs give c + o - k stops.
C4_CoincidentMerge ==
    [][/\ (/\ pc = "next_stop"
           /\ current_c < c_count /\ current_o < o_count
           /\ fStops[4 * current_c + 1] = fStops[4 * c_count + 2 * current_o + 1])
          => /\ stops' = Append(stops,
                   [fPosition |-> fStops[4 * current_c + 1],
                    fColor |-> [r |-> ChannelToU8(RatInt(fStops[4 * current_c + 2])),
                                g |-> ChannelToU8(RatInt(fStops[4 * current_c + 3])),
                                b |-> ChannelToU8(RatInt(fStops[4 * current_c + 4])),
                                a |-> ChannelToU8(RatInt(fStops[4 * c_count + 2 * current_o + 2]))]])
             /\ current_c' = current_c + 1
             /\ current_o' = current_o + 1
       /\ pc' = "done"
          => Len(fGradient'.colorStops) =
               c_count + o_count - CoincidentPairs(fStops, c_count, o_count, 0, 0)]_vars

\* C4 witness: the walk is done; it emitted a color stop at t = 0 and then met
\* a coincident pair, whose stop has another color than the first.
C4_Witness ==
    /\ pc = "done"
    /\ c_count = 2 /\ o_count = 1
    /\ fStops[1] = 0
    /\ fStops[5] = 2048 /\ fStops[9] = 2048
    /\ CoincidentPairs(fStops, c_count, o_count, 0, 0) = 1
    /\ Len(fGradient.colorStops) = 2
    /\ fGradient.colorStops[1].fColor # fGradient.colorStops[2].fColor

\* C10: for a sequence that passed validation, next_stop() is never entered
\* with both cursors at their ends; each emission advances at least one
\* cursor, each by at most one record and never past its end; the walk ends
\* with both cursors at their ends, having emitted at least max(c, o) and at
\* most c + o stops.
C10_WalkAdvancesAndEnds ==
    [][/\ pc' # "unreachable"
       /\ pc' = "next_stop" => (current_c' < c_count \/ current_o' < o_count)
       /\ pc = "next_stop"
          => /\ current_c' - current_c \in {0, 1}
             /\ current_o' - current_o \in {0, 1}
             /\ (current_c' - current_c) + (current_o' - current_o) >= 1
             /\ current_c' <= c_count /\ current_o' <= o_count
             /\ Len(stops') = Len(stops) + 1
       /\ pc' \in {"setColorStops", "done"}
          => /\ current_c' = c_count /\ current_o' = o_count
             /\ Len(stops') >= Max(c_count, o_count)
             /\ Len(stops') <= c_count + o_count
       /\ pc' = "done" => fGradient'.colorStops = stops'
       /\ pc' \in {"while", "next_stop", "setColorStops"} => ENABLED NextWalk]_vars

\* C10 witness: a walk over three color and one opacity record is done.
C10_Witness ==
    /\ pc = "done"
    /\ c_count + o_count = 3
    /\ c_count >= 1 /\ o_count >= 1
    /\ Len(fGradient.colorStops) \in {2, 3}

\* start = 90, end = 10, offset = 0
C5_Scenario == fStart = 90 /\ fEnd = 10 /\ fOffset = 0

\* C5 as stated: in the scenario the range has startT > stopT before the
\* swap, so apply() swaps and pushes mode Inverted with startT < stopT.
C5_SwapsToInverted ==
    (lastOp = "apply" /\ C5_Scenario)
        => /\ LET w == WrappedRange(OrderedRange(fStart, fEnd, fOffset))
              IN  F32Less(w.stopT, w.startT)
           /\ fTrimEffect.mode = "Inverted"
           /\ F32Less(fTrimEffect.start, fTrimEffect.stop)

\* C5 amended: in the scenario the range is ordered by min/max first, so it
\* has startT = 0.1 < stopT = 0.9 before any swap; apply() does not swap and
\* pushes mode Normal with startT = 0.1 < stopT = 0.9 (the floats 10/100 and
\* 90/100).
C5_OrderedStaysNormal ==
    (lastOp = "apply" /\ C5_Scenario)
        => /\ LET w == WrappedRange(OrderedRange(fStart, fEnd, fOffset))
              IN  F32Less(w.startT, w.stopT)
           /\ fTrimEffect = [start |-> F32Div(10, 100), stop |-> F32Div(90, 100),
                             mode |-> "Normal"]

\* C5 witness: apply() has just run in the scenario and pushed a range with
\* 0 < startT < stopT.
C5_Witness ==
    /\ lastOp = "apply"
    /\ C5_Scenario
    /\ F32Less(fTrimEffect.start, fTrimEffect.stop)
    /\ F32Less(F32Int(0), fTrimEffect.start)

\* the full range [0, 1] in mode Normal
FullRange == [start |-> F32Int(0), stop |-> F32Int(1), mode |-> "Normal"]

\* C6: apply() pushes startT = 0, stopT = 1, mode Normal whenever
\* |end - start| >= 100, for every offset, and never pushes startT = 0 with
\* stopT = 1 when |end - start| < 100.
C6_FullCycleCollapses ==
    lastOp = "apply"
        => /\ Abs(fEnd - fStart) >= 100 => fTrimEffect = FullRange
           /\ Abs(fEnd - fStart) < 100
                => ~(fTrimEffect.start = F32Int(0) /\ fTrimEffect.stop = F32Int(1))

\* C11: the range apply() pushes satisfies 0 <= startT <= stopT <= 1; mode
\* Inverted is pushed only when |end - start| < 100 and the wrapped lower
\* bound is strictly greater than the wrapped upper bound, and mode Normal in
\* every other case.
C11_RangeOrderedInvertedOnlyOnWrap ==
    lastOp = "apply"
        => LET w == WrappedRange(OrderedRange(fStart, fEnd, fOffset))
               crosses == /\ Abs(fEnd - fStart) < 100
                          /\ F32Less(w.stopT, w.startT)
           IN  /\ F32LessEq(F32Int(0), fTrimEffect.start)
               /\ F32LessEq(fTrimEffect.start, fTrimEffect.stop)
               /\ F32LessEq(fTrimEffect.stop, F32Int(1))
               /\ fTrimEffect.mode = "Inverted" => crosses
               /\ ~crosses => fTrimEffect.mode = "Normal"

\* the count clamped to [0, 512] and rounded to nearest, the count in quarters
C7_n ==
    IF fCount <= 0 THEN 0
    ELSE IF fCount >= 4 * 512 THEN 512
    ELSE (fCount + 2) \div 4

\* C7: after apply() the group holds exactly n children, n the count clamped
\* to [0, 512] and rounded to nearest, whatever it held before; with Above
\* child k (from 0) carries the transform of instance k, with Below that of
\* instance n-1-k.
C7_ChildrenRebuilt ==
    lastOp = "apply"
        => /\ Len(fRoot) = C7_n
           /\ \A k \in 0..(C7_n - 1) :
                fRoot[k + 1] = compute_transform(IF fComposite = "Above" THEN k ELSE C7_n - 1 - k)

\* C7 witness: apply() of a Below repeater has just built three children,
\* the first one rotated further than the last.
C7_Witness ==
    /\ lastOp = "apply"
    /\ fComposite = "Below"
    /\ Len(fRoot) = 3
    /\ fRoot[1].postRotate > fRoot[3].postRotate

\* C8: onTick(t) ticks the animators of the list set last, each once, in
\* list order and with time t, then calls onSync once; it ticks no animator
\* of a replaced list; t may be less than the time of the tick before.
C8_TickInListOrderThenSync ==
    [][(lastOp' = "onTick" /\ numTicks' = numTicks + 1)
         => LET t == lastTicks'[2]
                n == Len(lastSet)
            IN  /\ Len(tickLog') = n + 1
                /\ \A i \in 1..n :
                     /\ tickLog'[i] = [call |-> "tick", animator |-> lastSet[i], t |-> t]
                     /\ animTime'[lastSet[i]] = t
                /\ tickLog'[n + 1].call = "onSync"
                /\ \A a \in destroyed :
                     /\ animTime'[a] = animTime[a]
                     /\ \A i \in DOMAIN tickLog' : tickLog'[i].animator # a]_vars

\* C8 witness: a second list of two animators replaced the first list, and
\* onTick has just run with a time before that of the previous onTick.
C8_Witness ==
    /\ lastOp = "onTick"
    /\ destroyed # {}
    /\ Len(fAnimators) = 2
    /\ Len(tickLog) = 3
    /\ lastTicks[1] > lastTicks[2]
    /\ lastTicks[2] >= 0

\* the point count rounded and clamped to [0, 100000], the count in halves
C9_n ==
    IF fPointCount < 1 THEN 0
    ELSE IF fPointCount >= 2 * 100000 - 1 THEN 100000
    ELSE (fPointCount + 1) \div 2

\* C9: the path apply() builds starts with a moveTo and ends with a close;
\* between them a Star has exactly 2n lineTo, inner and outer points in
\* turn, inner first; a Polygon has exactly n lineTo, all at fOuterRadius
\* around fPosition and (the radii differing) none at fInnerRadius; n = 0
\* gives no lineTo.
C9_PathShape ==
    lastOp = "apply"
        => LET v == fPathNode.verbs
               n == C9_n
           IN  /\ fPathNode.center = fPosition
               /\ v[1] = [verb |-> "moveTo", r |-> fOuterRadius, half |-> 0]
               /\ v[Len(v)].verb = "close"
               /\ fType = "Star"
                    => /\ Len(v) = 2 * n + 2
                       /\ \A j \in 1..(2 * n) :
                            /\ v[j + 1].verb = "lineTo"
                            /\ v[j + 1].half = j
                            /\ v[j + 1].r = IF j % 2 = 1 THEN fInnerRadius ELSE fOuterRadius
               /\ fType = "Polygon"
                    => /\ Len(v) = n + 2
                       /\ \A j \in 1..n :
                            /\ v[j + 1].verb = "lineTo"
                            /\ v[j + 1].half = 2 * j
                            /\ v[j + 1].r = fOuterRadius
                            /\ fInnerRadius # fOuterRadius => v[j + 1].r # fInnerRadius
               /\ n = 0 => \A j \in DOMAIN v : v[j].verb # "lineTo"

\* C9 witness: apply() has just built a five-pointed star with ten lineTo,
\* the inner radius differing from the outer.
C9_Witness ==
    /\ lastOp = "apply"
    /\ fType = "Star"
    /\ C9_n = 5
    /\ fInnerRadius # fOuterRadius
    /\ Len(fPathNode.verbs) = 12
    /\ fPathNode.verbs[2].r = fInnerRadius
    /\ fPathNode.verbs[11].r = fOuterRadius

====
